---- MODULE Spec2Model ----
(***************************************************************************)
(* The arithmetic sequence generator of src/app.py: the two kernel         *)
(* functions generate_arithmetic_sequence and validate_inputs, and the     *)
(* Streamlit script main that calls them on every script run.              *)
(*                                                                         *)
(* Numbers.  first_term, common_difference and every term are Python       *)
(* floats.  The model holds a float as an integer count of eighths         *)
(* (Unit = 8: 12 is 1.5, -3 is -0.375).  Eighths of the magnitudes used    *)
(* here are exact binary fractions, so float addition and multiplication   *)
(* of them are exact and the integer arithmetic below is the float         *)
(* arithmetic of the code.  The one inexact operation, the division in     *)
(* the average, is kept as a quotient and rounded as IEEE-754 does.        *)
(***************************************************************************)
EXTENDS Integers, Sequences, FiniteSets, TLC

VARIABLES
    first_term,         \* value of the "First Term" number_input (eighths)
    common_difference,  \* value of the "Common Difference" number_input (eighths)
    num_terms,          \* value of the "Number of Terms" number_input (an int)
    pc,                 \* where the current script run is
    trigger,            \* what started the current run
    button,             \* what st.button returns in the current run
    checkbox,           \* the session's value of the table checkbox
    widgets,            \* the conditional widgets rendered on the page
    is_valid,           \* main's local is_valid
    error_message,      \* main's local error_message
    sequence,           \* main's local sequence
    calls,              \* kernel functions called in the current run, in order
    error_shown,        \* the st.error output of the run ("" when none)
    listing,            \* the lines written under "Sequence Terms"
    info,               \* the lines written under "Sequence Information"
    table,              \* the rows of the detailed table (<<>> when not shown)
    footer              \* whether the "About" section was rendered

vars == <<first_term, common_difference, num_terms, pc, trigger, button, checkbox,
          widgets, is_valid, error_message, sequence, calls, error_shown, listing,
          info, table, footer>>

(***************************************************************************)
(* Bounds and program constants                                            *)
(***************************************************************************)
Unit == 8
MaxNumTerms == 1000
ListThreshold == 20
GroupSize == 10
DefaultNumTerms == 10
\* the small term counts explored run from below zero up to MaxSmallTerms
MaxSmallTerms == 22
\* term counts explored on either side of 0 and of MaxNumTerms
Slack == 5

MsgInvalidTermCount == "Number of terms must be a positive integer greater than 0."
MsgTermCountTooLarge == "Number of terms cannot exceed 1000 for performance reasons."

\* floats offered to the two float inputs: 1.0 is the widgets' default
FirstTermValues == {-12, 0, 1, 8, 12, 16, 80}
DifferenceValues == {-24, -3, 0, 1, 4, 8, 24}
\* term counts offered to the pure functions
NumTermsFn == ((0 - Slack)..MaxSmallTerms)
                \cup ((MaxNumTerms - Slack)..(MaxNumTerms + Slack))
\* term counts the "Number of Terms" input hands to main.  The input is the
\* framework's; the model does not rely on it keeping min_value and max_value
\* (lines 76-77), so that main's own guard (lines 84-88) is exercised.
NumTermsValues == (0..2) \cup {5, DefaultNumTerms}
                    \cup ((ListThreshold - 1)..MaxSmallTerms)
                    \cup {MaxNumTerms, MaxNumTerms + 1}

Abs(x) == IF x < 0 THEN 0 - x ELSE x
Min2(a, b) == IF a <= b THEN a ELSE b
Max2(a, b) == IF a >= b THEN a ELSE b
Range(s) == {s[i] : i \in 1..Len(s)}

(***************************************************************************)
(* generate_arithmetic_sequence (lines 3-19)                               *)
(***************************************************************************)
TermSubtracts(a1, d, i) == a1 - (i * d)

\* line 17: term = first_term + (i * common_difference)
Term(a1, d, i) == a1 + (i * d)

\* lines 16-18: the loop body run for i = lo, lo+1, ..., hi-1 in order, each
\* iteration appending its term.  The index range is halved so that 1000
\* iterations evaluate within TLC's stack; the order of appends is the loop's.
RECURSIVE LoopAppend(_, _, _, _)
LoopAppend(a1, d, lo, hi) ==
    IF hi <= lo THEN << >>
    ELSE IF hi = lo + 1 THEN << Term(a1, d, lo) >>
    ELSE LET mid == lo + ((hi - lo) \div 2)
         IN  LoopAppend(a1, d, lo, mid) \o LoopAppend(a1, d, mid, hi)

GenerateOneShort(a1, d, n) == << >> \o LoopAppend(a1, d, 0, n - 1)

\* lines 15-19: sequence = []; for i in range(num_terms): ...; return sequence
generate_arithmetic_sequence(a1, d, n) == << >> \o LoopAppend(a1, d, 0, n)

(***************************************************************************)
(* validate_inputs (lines 21-35): the pair (is_valid, error_message)       *)
(***************************************************************************)
ValidateStrictZero(a1, d, n) ==
    IF n < 0 THEN <<FALSE, MsgInvalidTermCount>>
    ELSE IF n > MaxNumTerms THEN <<FALSE, MsgTermCountTooLarge>>
    ELSE <<TRUE, "">>

ValidateOffByOneMax(a1, d, n) ==
    IF n <= 0 THEN <<FALSE, MsgInvalidTermCount>>
    ELSE IF n > MaxNumTerms + 1 THEN <<FALSE, MsgTermCountTooLarge>>
    ELSE <<TRUE, "">>

ValidateRejectsMax(a1, d, n) ==
    IF n <= 0 THEN <<FALSE, MsgInvalidTermCount>>
    ELSE IF n >= MaxNumTerms THEN <<FALSE, MsgTermCountTooLarge>>
    ELSE <<TRUE, "">>

validate_inputs(a1, d, n) ==
    IF n <= 0 THEN <<FALSE, MsgInvalidTermCount>>
    ELSE IF n > MaxNumTerms THEN <<FALSE, MsgTermCountTooLarge>>
    ELSE <<TRUE, "">>

(***************************************************************************)
(* Python's renderings of a float                                          *)
(***************************************************************************)
DigitChar == <<"0", "1", "2", "3", "4", "5", "6", "7", "8", "9">>

RECURSIVE NatStr(_)
NatStr(n) ==
    IF n < 10 THEN DigitChar[n + 1]
    ELSE NatStr(n \div 10) \o DigitChar[(n % 10) + 1]

TwoDigits(n) == DigitChar[(n \div 10) + 1] \o DigitChar[(n % 10) + 1]

\* int(term): the float truncated toward zero, as a Python int
IntOf(t) == IF t >= 0 THEN t \div Unit ELSE 0 - ((0 - t) \div Unit)

\* term == int(term) (lines 117, 124, 125)
EqualsItsInt(t) == t = IntOf(t) * Unit

\* the shortest decimal fraction of k eighths, k in 0..7
FracDigits == <<"0", "125", "25", "375", "5", "625", "75", "875">>

\* str(x) and f"{x}" of a float x (repr): "2.0", "1.5", "-0.375"
FloatStr(t) ==
    (IF t < 0 THEN "-" ELSE "")
        \o NatStr(Abs(t) \div Unit) \o "." \o FracDigits[(Abs(t) % Unit) + 1]

RECURSIVE OddPart(_)
OddPart(q) == IF q % 2 = 0 THEN OddPart(q \div 2) ELSE q

RECURSIVE BitLen(_)
BitLen(n) == IF n = 0 THEN 0 ELSE 1 + BitLen(n \div 2)

\* the remainder left after `bits` more binary digits of r/q (0 <= r < q)
RECURSIVE AfterBits(_, _, _)
AfterBits(r, q, bits) == IF bits <= 0 THEN r ELSE AfterBits((2 * r) % q, q, bits - 1)

\* the remainder of r/q (0 < r < q) just after its first binary digit 1
RECURSIVE AfterLeadingOne(_, _)
AfterLeadingOne(r, q) == IF 2 * r >= q THEN (2 * r) - q ELSE AfterLeadingOne(2 * r, q)

\* Whether the double nearest to p/q (p, q > 0, p/q not a binary fraction) lies
\* above p/q: the digit after the 53-bit significand rounds it up.
DoubleIsAbove(p, q) ==
    LET ip == p \div q
        r0 == p % q
        r  == IF ip > 0 THEN AfterBits(r0, q, 53 - BitLen(ip))
              ELSE AfterBits(AfterLeadingOne(r0, q), q, 52)
    IN  2 * r > q

\* f"{x:.2f}" of the double x nearest to p/q (q > 0): the hundredths nearest
\* to x, an exact tie going to the even hundredth.
FormatRat2f(p, q) ==
    LET ap   == Abs(p)
        whole == ap \div q
        num  == (ap % q) * 100
        h    == (whole * 100) + (num \div q)
        rem  == num % q
        hund == IF 2 * rem < q THEN h
                ELSE IF 2 * rem > q THEN h + 1
                ELSE IF ap % OddPart(q) = 0
                     THEN (IF h % 2 = 0 THEN h ELSE h + 1)
                     ELSE (IF DoubleIsAbove(ap, q) THEN h + 1 ELSE h)
    IN  (IF p < 0 THEN "-" ELSE "")
            \o NatStr(hund \div 100) \o "." \o TwoDigits(hund % 100)

\* f"{x:.2f}" of a float held in eighths
Format2f(t) == FormatRat2f(t, Unit)

\* str(term) if term == int(term) else f"{term:.2f}" (lines 117, 124, 125)
FormatTerm(t) == IF EqualsItsInt(t) THEN FloatStr(t) ELSE Format2f(t)

\* sep.join(strs)
RECURSIVE Join(_, _)
Join(strs, sep) ==
    IF Len(strs) = 0 THEN ""
    ELSE IF Len(strs) = 1 THEN strs[1]
    ELSE Join(SubSeq(strs, 1, Len(strs) - 1), sep) \o sep \o strs[Len(strs)]

(***************************************************************************)
(* Python builtins over the list: sum, min, max, slices                    *)
(***************************************************************************)
\* sum(sequence[lo..hi]); exact in eighths, so the order of additions is free
RECURSIVE SumRange(_, _, _)
SumRange(seq, lo, hi) ==
    IF hi < lo THEN 0
    ELSE IF hi = lo THEN seq[lo]
    ELSE LET mid == lo + ((hi - lo) \div 2)
         IN  SumRange(seq, lo, mid) + SumRange(seq, mid + 1, hi)

PySum(seq) == SumRange(seq, 1, Len(seq))

RECURSIVE MinRange(_, _, _)
MinRange(seq, lo, hi) ==
    IF hi = lo THEN seq[lo]
    ELSE LET mid == lo + ((hi - lo) \div 2)
         IN  Min2(MinRange(seq, lo, mid), MinRange(seq, mid + 1, hi))

RECURSIVE MaxRange(_, _, _)
MaxRange(seq, lo, hi) ==
    IF hi = lo THEN seq[lo]
    ELSE LET mid == lo + ((hi - lo) \div 2)
         IN  Max2(MaxRange(seq, lo, mid), MaxRange(seq, mid + 1, hi))

PyMin(seq) == MinRange(seq, 1, Len(seq))
PyMax(seq) == MaxRange(seq, 1, Len(seq))

\* the positions (1-based) picked by sequence[:k] and by sequence[-k:]
HeadPositions(n, k) == [j \in 1..Min2(k, n) |-> j]
TailPositions(n, k) == [j \in 1..(n - Max2(n - k, 0)) |-> Max2(n - k, 0) + j]

(***************************************************************************)
(* main, lines 111-161: what a run that generated a sequence displays      *)
(***************************************************************************)
\* one written line: the list comprehension's strings, the text written, and
\* the positions of the sequence they render
Line(prefix, seq, positions, suffix) ==
    LET items == [k \in 1..Len(positions) |-> FormatTerm(seq[positions[k]])]
    IN  [items |-> items,
         text  |-> prefix \o Join(items, ", ") \o suffix,
         shown |-> positions]

ListingThresholdLower(seq) ==
    IF Len(seq) <= GroupSize
    THEN << Line("**", seq, HeadPositions(Len(seq), Len(seq)), "**") >>
    ELSE << Line("**First 10 terms:** ", seq, HeadPositions(Len(seq), GroupSize), ""),
            [items |-> << >>, text |-> "...", shown |-> << >>],
            Line("**Last 10 terms:** ", seq, TailPositions(Len(seq), GroupSize), "") >>

\* lines 114-129
Listing(seq) ==
    IF Len(seq) <= ListThreshold
    THEN << Line("**", seq, HeadPositions(Len(seq), Len(seq)), "**") >>
    ELSE << Line("**First 10 terms:** ", seq, HeadPositions(Len(seq), GroupSize), ""),
            [items |-> << >>, text |-> "...", shown |-> << >>],
            Line("**Last 10 terms:** ", seq, TailPositions(Len(seq), GroupSize), "") >>

InfoLinesRangeAlways(seq) ==
    << [stat |-> "sum",
        text |-> "**Sum of sequence:** " \o Format2f(PySum(seq))] >>
    \o (IF Len(seq) > 0
        THEN << [stat |-> "range",
                 text |-> "**Range:** " \o Format2f(PyMin(seq)) \o " to "
                              \o Format2f(PyMax(seq))] >>
        ELSE << >>)
    \o (IF Len(seq) > 0
        THEN << [stat |-> "average",
                 text |-> "**Average:** " \o FormatRat2f(PySum(seq), Unit * Len(seq))],
                [stat |-> "last",
                 text |-> "**Last term:** " \o Format2f(seq[Len(seq)])] >>
        ELSE << >>)

\* lines 131-145: info_col1 (sum, range), then info_col2 (average, last term)
InfoLines(seq) ==
    << [stat |-> "sum",
        text |-> "**Sum of sequence:** " \o Format2f(PySum(seq))] >>
    \o (IF Len(seq) > 1
        THEN << [stat |-> "range",
                 text |-> "**Range:** " \o Format2f(PyMin(seq)) \o " to "
                              \o Format2f(PyMax(seq))] >>
        ELSE << >>)
    \o (IF Len(seq) > 0
        THEN << [stat |-> "average",
                 text |-> "**Average:** " \o FormatRat2f(PySum(seq), Unit * Len(seq))],
                [stat |-> "last",
                 text |-> "**Last term:** " \o Format2f(seq[Len(seq)])] >>
        ELSE << >>)

\* lines 152-158: one row per term, enumerate(sequence, 1)
TableRows(a1, d, seq) ==
    [i \in 1..Len(seq) |->
        [position    |-> i,
         value       |-> seq[i],
         calculation |-> FloatStr(a1) \o " + (" \o NatStr(i - 1) \o ") × "
                             \o FloatStr(d) \o " = " \o FloatStr(seq[i])]]

(***************************************************************************)
(* The Streamlit session.  Every interaction re-runs main from the top;    *)
(* a run's outputs replace the previous run's.                             *)
(***************************************************************************)
Init ==
    /\ first_term = Unit            \* value=1.0 (line 60)
    /\ common_difference = Unit     \* value=1.0 (line 68)
    /\ num_terms = DefaultNumTerms  \* value=10 (line 78)
    /\ pc = "validate"
    /\ trigger = "load"
    /\ button = FALSE
    /\ checkbox = FALSE
    /\ widgets = {}
    /\ is_valid = FALSE
    /\ error_message = ""
    /\ sequence = << >>
    /\ calls = << >>
    /\ error_shown = ""
    /\ listing = << >>
    /\ info = << >>
    /\ table = << >>
    /\ footer = FALSE

\* a script run starts: main's locals and the page are fresh
RunStart(trig, clicked) ==
    /\ pc' = "validate"
    /\ trigger' = trig
    /\ button' = clicked
    /\ widgets' = {}
    /\ is_valid' = FALSE
    /\ error_message' = ""
    /\ sequence' = << >>
    /\ calls' = << >>
    /\ error_shown' = ""
    /\ listing' = << >>
    /\ info' = << >>
    /\ table' = << >>
    /\ footer' = FALSE

\* the user edits the first number_input (lines 58-63)
SetFirstTerm ==
    /\ pc = "idle"
    /\ \E v \in FirstTermValues \ {first_term} : first_term' = v
    /\ RunStart("first_term", FALSE)
    /\ UNCHANGED <<common_difference, num_terms, checkbox>>

\* the user edits the second number_input (lines 66-71)
SetCommonDifference ==
    /\ pc = "idle"
    /\ \E v \in DifferenceValues \ {common_difference} : common_difference' = v
    /\ RunStart("common_difference", FALSE)
    /\ UNCHANGED <<first_term, num_terms, checkbox>>

\* the user edits the third number_input (lines 74-81)
SetNumTerms ==
    /\ pc = "idle"
    /\ \E v \in NumTermsValues \ {num_terms} : num_terms' = v
    /\ RunStart("num_terms", FALSE)
    /\ UNCHANGED <<first_term, common_difference, checkbox>>

\* the user clicks "Generate Sequence": st.button (line 91) returns True in the
\* run this click starts, and False in every other run
ClickGenerate ==
    /\ pc = "idle"
    /\ "button" \in widgets
    /\ RunStart("button", TRUE)
    /\ UNCHANGED <<first_term, common_difference, num_terms, checkbox>>

\* the user clicks the "Show detailed table view" checkbox (line 148)
ClickCheckbox ==
    /\ pc = "idle"
    /\ "checkbox" \in widgets
    /\ checkbox' = ~checkbox
    /\ RunStart(IF checkbox THEN "untick" ELSE "tick", FALSE)
    /\ UNCHANGED <<first_term, common_difference, num_terms>>

\* the run is over: the session forgets the value of a widget the run did not
\* render, so the widget starts from its default when it is rendered again
EndOfRun(rendered) ==
    /\ pc' = "idle"
    /\ checkbox' = IF "checkbox" \in rendered THEN checkbox ELSE FALSE

MainValidateNoReturn ==
    /\ pc = "validate"
    /\ LET r == validate_inputs(first_term, common_difference, num_terms)
       IN  /\ is_valid' = r[1]
           /\ error_message' = r[2]
           /\ calls' = Append(calls, "validate_inputs")
           /\ error_shown' = IF r[1] THEN "" ELSE r[2]
           /\ pc' = "button"
           /\ checkbox' = checkbox
    /\ UNCHANGED <<first_term, common_difference, num_terms, trigger, button, widgets,
                   sequence, listing, info, table, footer>>

\* lines 83-88: validate; on failure st.error and return
MainValidate ==
    /\ pc = "validate"
    /\ LET r == validate_inputs(first_term, common_difference, num_terms)
       IN  /\ is_valid' = r[1]
           /\ error_message' = r[2]
           /\ calls' = Append(calls, "validate_inputs")
           /\ IF r[1]
              THEN /\ error_shown' = ""
                   /\ pc' = "button"
                   /\ checkbox' = checkbox
              ELSE /\ error_shown' = r[2]
                   /\ EndOfRun(widgets)
    /\ UNCHANGED <<first_term, common_difference, num_terms, trigger, button, widgets,
                   sequence, listing, info, table, footer>>

\* lines 90-161: the button and, in the run its click started, the generation,
\* the listing, the summary and the table checkbox
MainButton ==
    /\ pc = "button"
    /\ IF button
       THEN LET seq == generate_arithmetic_sequence(first_term, common_difference,
                                                    num_terms)
            IN  /\ sequence' = seq
                /\ calls' = Append(calls, "generate_arithmetic_sequence")
                /\ listing' = Listing(seq)
                /\ info' = InfoLines(seq)
                /\ widgets' = widgets \cup {"button", "checkbox"}
                /\ table' = IF checkbox
                            THEN TableRows(first_term, common_difference, seq)
                            ELSE << >>
       ELSE /\ widgets' = widgets \cup {"button"}
            /\ UNCHANGED <<sequence, calls, listing, info, table>>
    /\ pc' = "footer"
    /\ UNCHANGED <<first_term, common_difference, num_terms, trigger, button, checkbox,
                   is_valid, error_message, error_shown, footer>>

\* lines 163-180: the "About" section, and the run ends
MainFooter ==
    /\ pc = "footer"
    /\ footer' = TRUE
    /\ EndOfRun(widgets)
    /\ UNCHANGED <<first_term, common_difference, num_terms, trigger, button, widgets,
                   is_valid, error_message, sequence, calls, error_shown, listing,
                   info, table>>

Next ==
    \/ SetFirstTerm
    \/ SetCommonDifference
    \/ SetNumTerms
    \/ ClickGenerate
    \/ ClickCheckbox
    \/ MainValidate
    \/ MainButton
    \/ MainFooter

Spec == Init /\ [][Next]_vars

(***************************************************************************)
(* The two kernel functions on their own: the inputs are drawn from the    *)
(* value sets, and each function is applied once to them.                  *)
(***************************************************************************)
InitFn ==
    /\ first_term \in FirstTermValues
    /\ common_difference \in DifferenceValues
    /\ num_terms \in NumTermsFn
    /\ pc = "fn"
    /\ trigger = "fn"
    /\ button = FALSE
    /\ checkbox = FALSE
    /\ widgets = {}
    /\ is_valid = FALSE
    /\ error_message = ""
    /\ sequence = << >>
    /\ calls = << >>
    /\ error_shown = ""
    /\ listing = << >>
    /\ info = << >>
    /\ table = << >>
    /\ footer = FALSE

\* (is_valid, error_message) = validate_inputs(...)
FnValidate ==
    /\ pc = "fn"
    /\ "validate_inputs" \notin Range(calls)
    /\ LET r == validate_inputs(first_term, common_difference, num_terms)
       IN  /\ is_valid' = r[1]
           /\ error_message' = r[2]
    /\ calls' = Append(calls, "validate_inputs")
    /\ UNCHANGED <<first_term, common_difference, num_terms, pc, trigger, button,
                   checkbox, widgets, sequence, error_shown, listing, info, table,
                   footer>>

\* sequence = generate_arithmetic_sequence(...)
FnGenerate ==
    /\ pc = "fn"
    /\ "generate_arithmetic_sequence" \notin Range(calls)
    /\ sequence' = generate_arithmetic_sequence(first_term, common_difference,
                                                num_terms)
    /\ calls' = Append(calls, "generate_arithmetic_sequence")
    /\ UNCHANGED <<first_term, common_difference, num_terms, pc, trigger, button,
                   checkbox, widgets, is_valid, error_message, error_shown, listing,
                   info, table, footer>>

NextFn ==
    \/ FnValidate
    \/ FnGenerate

SpecFn == InitFn /\ [][NextFn]_vars

(***************************************************************************)
(* Properties                                                              *)
(***************************************************************************)
Validated == "validate_inputs" \in Range(calls)
Generated == "generate_arithmetic_sequence" \in Range(calls)
ValidCount == num_terms \in 1..1000

StrictlyIncreasing(seq) == \A i \in 1..(Len(seq) - 1) : seq[i] < seq[i + 1]
StrictlyDecreasing(seq) == \A i \in 1..(Len(seq) - 1) : seq[i] > seq[i + 1]
Constant(seq) == \A i \in 1..(Len(seq) - 1) : seq[i] = seq[i + 1]

\* C1: for 1 <= n <= 1000, generate_arithmetic_sequence(a1, d, n) has length
\* exactly n and its element at 0-indexed position i is a1 + i*d; generate(2, 3, 5)
\* is [2, 5, 8, 11, 14] and generate(10, -3, 5) is [10, 7, 4, 1, -2].
C1_GenerateTerms ==
    (Generated /\ ValidCount) =>
        /\ Len(sequence) = num_terms
        /\ \A i \in 0..(num_terms - 1) :
              sequence[i + 1] = first_term + (i * common_difference)
        /\ (first_term = 16 /\ common_difference = 24 /\ num_terms = 5)
              => sequence = <<16, 40, 64, 88, 112>>
        /\ (first_term = 80 /\ common_difference = -24 /\ num_terms = 5)
              => sequence = <<80, 56, 32, 8, -16>>

C1_Witness ==
    /\ Generated
    /\ first_term = 16 /\ common_difference = 24 /\ num_terms = 5
    /\ sequence = <<16, 40, 64, 88, 112>>

\* C2: whatever first_term and common_difference are, validate_inputs fails when
\* num_terms <= 0, with exactly the "greater than 0" message and never the
\* "cannot exceed 1000" one.
C2_NonPositiveRejected ==
    (Validated /\ num_terms <= 0) =>
        /\ is_valid = FALSE
        /\ error_message = "Number of terms must be a positive integer greater than 0."
        /\ error_message # MsgTermCountTooLarge

C2_Witness ==
    /\ Validated
    /\ num_terms = 0
    /\ first_term # 0
    /\ is_valid = FALSE
    /\ error_message = MsgInvalidTermCount

\* C3: whatever first_term and common_difference are, validate_inputs fails when
\* num_terms > 1000, with exactly the "cannot exceed 1000" message; 1001 fails so.
C3_TooLargeRejected ==
    (Validated /\ num_terms > 1000) =>
        /\ is_valid = FALSE
        /\ error_message = "Number of terms cannot exceed 1000 for performance reasons."

C3_Witness ==
    /\ Validated
    /\ num_terms = 1001
    /\ is_valid = FALSE
    /\ error_message = MsgTermCountTooLarge

\* C4: validate_inputs succeeds with an empty message for every num_terms in
\* 1..1000, 1000 included, and its result is the same for every first_term and
\* common_difference.
C4_ValidAccepted ==
    Validated =>
        /\ ValidCount => (is_valid = TRUE /\ error_message = "")
        /\ \A a \in FirstTermValues, d \in DifferenceValues :
              validate_inputs(a, d, num_terms) = <<is_valid, error_message>>

C4_Witness ==
    /\ Validated
    /\ num_terms = 1000
    /\ is_valid = TRUE
    /\ error_message = ""

\* C5 as stated: for every n in 1..1000 the generated list is strictly increasing
\* iff d > 0, strictly decreasing iff d < 0, and constant iff d = 0.
C5_MonotoneIffAllN ==
    (Generated /\ ValidCount) =>
        /\ StrictlyIncreasing(sequence) <=> common_difference > 0
        /\ StrictlyDecreasing(sequence) <=> common_difference < 0
        /\ Constant(sequence) <=> common_difference = 0

\* C5 amended: the three equivalences hold for every n in 2..1000; the one-term
\* list of n = 1 is strictly increasing, strictly decreasing and constant at
\* once, whatever d is.
C5_MonotoneIffFromTwo ==
    /\ (Generated /\ num_terms \in 2..1000) =>
          /\ StrictlyIncreasing(sequence) <=> common_difference > 0
          /\ StrictlyDecreasing(sequence) <=> common_difference < 0
          /\ Constant(sequence) <=> common_difference = 0
    /\ (Generated /\ num_terms = 1) =>
          /\ Len(sequence) = 1
          /\ StrictlyIncreasing(sequence)
          /\ StrictlyDecreasing(sequence)
          /\ Constant(sequence)

C5_Witness ==
    /\ Generated
    /\ num_terms = 1000
    /\ common_difference < 0
    /\ StrictlyDecreasing(sequence)
    /\ ~StrictlyIncreasing(sequence)
    /\ ~Constant(sequence)

\* C6: in every run of main validate_inputs is called before any call of
\* generate_arithmetic_sequence, which is called at most once and never in a run
\* whose validation failed: such a run reports the error message and ends, with
\* nothing generated or displayed.
C6_ValidateThenGenerate ==
    /\ calls \in { << >>,
                   <<"validate_inputs">>,
                   <<"validate_inputs", "generate_arithmetic_sequence">> }
    /\ Generated => (is_valid = TRUE /\ error_shown = "")
    /\ (Validated /\ is_valid = FALSE) =>
          /\ pc = "idle"
          /\ error_message \in {MsgInvalidTermCount, MsgTermCountTooLarge}
          /\ error_shown = error_message
          /\ sequence = << >>
          /\ listing = << >>
          /\ info = << >>
          /\ table = << >>

C6_Witness ==
    /\ pc = "idle"
    /\ trigger = "button"
    /\ calls = <<"validate_inputs", "generate_arithmetic_sequence">>
    /\ Len(sequence) = num_terms

\* the summary's statistics, from the closed forms of an arithmetic sequence
ExpectedSum == (num_terms * first_term)
                  + (common_difference * ((num_terms * (num_terms - 1)) \div 2))
ExpectedLast == first_term + ((num_terms - 1) * common_difference)
ExpectedMin == IF common_difference >= 0 THEN first_term ELSE ExpectedLast
ExpectedMax == IF common_difference >= 0 THEN ExpectedLast ELSE first_term
StatsShown == {info[i].stat : i \in 1..Len(info)}
StatText(stat) == LET i == CHOOSE j \in 1..Len(info) : info[j].stat = stat
                  IN  info[i].text

\* C7 as stated: for every generated sequence of a valid request the summary
\* shows all five statistics: sum, minimum, maximum, average and last term.
C7_AllFiveStatistics ==
    (Generated /\ ValidCount) =>
        /\ StatsShown = {"sum", "range", "average", "last"}
        /\ StatText("range") = "**Range:** " \o Format2f(ExpectedMin) \o " to "
                                   \o Format2f(ExpectedMax)

\* C7 amended: the summary shows the sum, the average and the last term for
\* every valid request, and the minimum and maximum (the range line) only when
\* the sequence has at least two terms; for n = 1 minimum and maximum are absent.
C7_StatisticsRangeFromTwo ==
    (Generated /\ ValidCount) =>
        /\ StatsShown = IF num_terms >= 2 THEN {"sum", "range", "average", "last"}
                        ELSE {"sum", "average", "last"}
        /\ Len(info) = Cardinality(StatsShown)
        /\ StatText("sum") = "**Sum of sequence:** " \o Format2f(ExpectedSum)
        /\ StatText("average") =
              "**Average:** " \o FormatRat2f(ExpectedSum, 8 * num_terms)
        /\ StatText("last") = "**Last term:** " \o Format2f(ExpectedLast)
        /\ num_terms >= 2 =>
              StatText("range") = "**Range:** " \o Format2f(ExpectedMin) \o " to "
                                      \o Format2f(ExpectedMax)

C7_Witness ==
    /\ pc = "idle"
    /\ Generated
    /\ first_term = 16 /\ common_difference = 24 /\ num_terms = 5
    /\ info = << [stat |-> "sum", text |-> "**Sum of sequence:** 40.00"],
                 [stat |-> "range", text |-> "**Range:** 2.00 to 14.00"],
                 [stat |-> "average", text |-> "**Average:** 8.00"],
                 [stat |-> "last", text |-> "**Last term:** 14.00"] >>

\* C8: a sequence of n <= 20 terms is listed in full and in order; one of n > 20
\* terms is listed as its first 10 terms, an ellipsis and its last 10 terms, the
\* two groups sharing no position; n = 20 is listed in full, n = 21 truncated.
C8_ListingGroups ==
    (Generated /\ ValidCount) =>
        /\ \A k \in 1..Len(listing) : Len(listing[k].items) = Len(listing[k].shown)
        /\ IF num_terms <= 20
           THEN /\ Len(listing) = 1
                /\ listing[1].shown = [j \in 1..num_terms |-> j]
           ELSE /\ Len(listing) = 3
                /\ listing[1].shown = [j \in 1..10 |-> j]
                /\ listing[2].text = "..."
                /\ listing[2].shown = << >>
                /\ listing[3].shown = [j \in 1..10 |-> (num_terms - 10) + j]
                /\ Range(listing[1].shown) \cap Range(listing[3].shown) = {}

C8_Witness ==
    /\ pc = "idle"
    /\ Generated
    /\ num_terms = 21
    /\ first_term = 8 /\ common_difference = 8
    /\ Len(listing) = 3
    /\ listing[1].text
          = "**First 10 terms:** 1.0, 2.0, 3.0, 4.0, 5.0, 6.0, 7.0, 8.0, 9.0, 10.0"
    /\ listing[3].shown[1] = 12

\* a value of whole eighths as a plain integer: "2", "-3"
PlainInteger(t) == (IF t < 0 THEN "-" ELSE "") \o NatStr(Abs(t) \div 8)

\* C9: each displayed term is rendered as a plain integer, with no decimal point
\* or fractional digits, when its value equals its integer truncation, and
\* rounded to two decimal places otherwise; the float 2.0 is displayed as "2".
C9_IntegerTermsPlain ==
    Generated =>
        \A k \in 1..Len(listing) : \A j \in 1..Len(listing[k].shown) :
            LET t == sequence[listing[k].shown[j]]
            IN  listing[k].items[j] = IF t % 8 = 0 THEN PlainInteger(t)
                                      ELSE Format2f(t)

\* C10: after "Generate Sequence" was clicked for a valid request and the table
\* checkbox was then ticked, the run the tick starts displays the table with
\* exactly n rows, row i showing the term a1 + (i-1)*d.
C10_TableAfterTick ==
    (pc = "idle" /\ trigger = "tick" /\ is_valid) =>
        /\ Len(table) = num_terms
        /\ \A i \in 1..Len(table) :
              /\ table[i].position = i
              /\ table[i].value = first_term + ((i - 1) * common_difference)

====
